---- MODULE Spec2Model ----
(***************************************************************************)
(* Middleware core of tello_fly: TaskScheduler (task_scheduler.py),        *)
(* CmdQueue (cmd_queue.py), the UDP driver (drivers/tello/tello_sdk.py),   *)
(* the event bus (event_bus.py) and the StateMonitor (state_monitor.py)    *)
(* on one cooperative asyncio event loop.  One action is one run of a      *)
(* coroutine between two suspension points, or one callback of the loop.   *)
(* Time is discrete: every armed timer holds the ticks it has left, a tick *)
(* decrements them all, a timer fires at 0 and no tick passes a due timer. *)
(***************************************************************************)
EXTENDS Integers, Sequences, FiniteSets, TLC

\* ---------------------------------------------------------------- bounds
Tasks == {"t1", "t2"}            \* task ids submitted through the scheduler
DirectIds == {"d1", "d2", "d3"}  \* callers that use CmdQueue.push directly
Stoppers == {"A", "B"}           \* callers of CmdQueue.stop
Cmds == {"takeoff", "forward"}   \* one assumable and one other command
DirectCmds == {"forward"}        \* commands of the direct pushers
DriverIds == {"d1"}              \* the direct pusher of the driver-level runs
Lines == {"ok", "error"}         \* reply lines of the device
MaxWorkers == 3                  \* worker tasks ever created
QMaxSize == 2                    \* CmdQueue maxsize, scaled down
TimeoutTicks == 2                \* msg.timeout_ms, in ticks
GraceTicks == 2                  \* grace_ms, in ticks
BackoffTicks == 1                \* backoff_ms, in ticks
ConnectTicks == 2                \* the 2.0 s of the connect handshake

\* ------------------------------------------------------ program constants
OK == 0
ERR_TIMEOUT == 1201
ERR_GENERIC == 1500
RetryMax == 2
RxMaxSize == 64
NoTimer == -1
NoWorker == 0

assume_ok_cmds == {"takeoff", "land"}
assumable_cmds == {"takeoff", "land"}

Workers == 1..MaxWorkers
Connectors == {"k1", "k2"}         \* callers of connect()
StartupConnector == "k1"           \* the connect() of the application's start-up
Exchangers == Connectors \cup {"send", "hb"}  \* the exchanges on the socket
DefaultPort == 9000
LocalPorts == {0, DefaultPort}     \* configure(local_port=...): ephemeral or fixed
NoBattery == -1
AllLines == {"ok", "error", "87"}  \* reply lines, a battery level included
AnyCmds == {"forward", " "}        \* commands, a blank one included
MaxSocks == 2                      \* UDP endpoints ever open at once
MaxPending == 2                    \* unanswered datagrams when a caller calls again
HbTicks == 1                       \* the 1.0 s of the heartbeat
Chans == {"state", "event"}        \* _state_bus, _event_bus
Subs == {"s1", "s2"}               \* subscribers
SubSizes == {0, 1, 2}              \* maxsize of a subscriber's queue
Policies == {"drop_oldest", "drop_newest", "block"}
DropPolicies == {"drop_oldest", "drop_newest"}
DefaultMaxFail == 3                \* max_heartbeat_fail of StateMonitor()
MaxFailArgs == {0, 1, 2}           \* max_heartbeat_fail arguments tried
MaxWait == 4                       \* ticks counted for the wait of one exchange
MaxBeats == 4                      \* heartbeats of the monitor
Pubs == {"p1", "p2"}               \* coroutines that call publish_state/_event
MaxPub == 4                        \* publish calls
Sentinel == 0                      \* _SENTINEL; payloads are seq 1, 2, ...
NoMsg == [task_id |-> "-", cmd |-> "-", att |-> 0]

VARIABLES
  \* TaskScheduler
  pc,         \* position of each task runner (_run_task)
  cmd,        \* base_msg.cmd of each task
  attempt,    \* loop variable `attempt` of each runner
  fut,        \* the runner's current future: state and result
  inflight,   \* keys of self._inflight
  delivered,  \* InFlight.delivered of the entry of each task
  deadline,   \* the timer the runner is waiting on (wait_for / sleep)
  \* CmdQueue
  q,          \* self._q
  dpc,        \* position of each direct CmdQueue.push call
  dcmd,       \* cmd of the message of each direct push
  workerRef,  \* self._worker (NoWorker = None)
  stopped,    \* self._stopped
  wst,        \* state of each worker task
  wcancel,    \* Task.cancel() requested and not yet processed
  wmsg,       \* the message a worker is sending
  wdl,        \* deadline of the worker's wait for a reply
  stopPc,     \* the worker each stop() call is awaiting
  \* driver and device
  connected,  \* _TelloDriver.connected
  transport,  \* self._transport is not None
  rxq,        \* self._rx_queue
  cpc,        \* position of each connect() caller
  cdl,        \* deadline of each connect() caller's wait for a reply
  devPending, \* datagrams the device received and has not answered
  localPort,  \* self._local_port
  socks,      \* UDP endpoints bound by the driver and not closed
  hpc,        \* position of the heartbeat() caller
  hdl,        \* deadline of the heartbeat's wait for a reply
  battery,    \* self.last_battery (NoBattery = None)
  \* history
  log,        \* per task: events published and callbacks dispatched
  resp,       \* per task: responses handed to _on_driver_resp, as
              \* <<ok, detail, phase, entry found, attempt>>
  graceLeft,  \* per task: ticks of grace_ms left since the deadline fired
  pushLog,    \* task ids in the order CmdQueue.push accepted them
  sendLog,    \* task ids in the order handed to Driver.send_cmd
  ncCalls,    \* task ids whose send_cmd was entered while not connected
  wire,       \* <<who, text>> of the datagrams written to the socket
  stale,      \* per exchange: queued lines that were there when it began
  hadStale,   \* exchanges whose last start found a line in the receive queue
  staleReply, \* exchanges that returned such a line as their reply
  lastConn,   \* what the latest of the connect() and close() calls did
  waited,     \* per exchange: ticks gone by since its write, while it waits
  owed,       \* who wrote each datagram the device has not answered, in order
  rxfrom,     \* per line of the receive queue: whose datagram it answers
  crossed,    \* <<task, writer>>: the task was completed with the writer's reply
  \* event bus
  bclosed,    \* _Broadcast._closed of each channel
  bpolicy,    \* _Broadcast._drop_policy of each channel
  bsubs,      \* _Broadcast._subs of each channel: the registered queues
  sq,         \* the asyncio.Queue of each subscriber
  smax,       \* its maxsize (0: unbounded)
  sch,        \* the channel it subscribed to
  spc,        \* position of each subscriber's iteration
  npub,       \* publish calls made so far: the next payload's seq
  got,        \* per subscriber: payloads its iteration yielded
  pubs,       \* per subscriber: payloads published since it registered
  mixed,      \* per subscriber: a publish came after it had consumed
  lateSub,    \* subscribers whose iteration began after shutdown()
  ppc,        \* per publisher: "idle", "put" (suspended in q.put), "woken"
  pitem,      \* the payload seq of its publish call in progress
  prest,      \* the queues of its fan-out not served yet, the awaited one first
  putters,    \* asyncio.Queue._putters of each subscriber queue
  \* state monitor
  mpc,        \* StateMonitor._task: "none", "top", "hb", "sleep", "dead"
  fail_count, \* StateMonitor._fail_count
  max_fail,   \* StateMonitor._max_fail
  mlog,       \* the payloads the monitor published, in order
  mrun,       \* failed heartbeats in a row since the last success or start()
  mbeats      \* heartbeat() calls the monitor made

schedVars == <<pc, cmd, attempt, fut, inflight, delivered, deadline>>
queueVars == <<q, dpc, dcmd, workerRef, stopped, wst, wcancel, wmsg, wdl, stopPc>>
drvVars == <<connected, transport, rxq, cpc, cdl, devPending>>
hbVars == <<localPort, socks, hpc, hdl, battery>>
histVars == <<log, resp, graceLeft, pushLog, sendLog>>
wireVars == <<ncCalls, wire, stale, hadStale, staleReply, lastConn, waited>>
pubVars == <<ppc, pitem, prest, putters>>
busVars == <<bclosed, bpolicy, bsubs, sq, smax, sch, spc, npub, got, pubs, mixed,
             lateSub, pubVars>>
monVars == <<mpc, fail_count, max_fail, mlog, mrun, mbeats>>
replyVars == <<owed, rxfrom, crossed>>
coreVars == <<schedVars, queueVars, drvVars, hbVars, histVars, wireVars, monVars,
              replyVars>>
vars == <<coreVars, busVars>>

NoFut == [st |-> "pending", ok |-> 0, kind |-> "none"]

Init ==
  /\ pc = [t \in Tasks |-> "new"]
  /\ cmd = [t \in Tasks |-> "-"]
  /\ attempt = [t \in Tasks |-> 0]
  /\ fut = [t \in Tasks |-> NoFut]
  /\ inflight = {}
  /\ delivered = [t \in Tasks |-> FALSE]
  /\ deadline = [t \in Tasks |-> NoTimer]
  /\ q = <<>>
  /\ dpc = [d \in DirectIds |-> "idle"]
  /\ dcmd = [d \in DirectIds |-> "-"]
  /\ workerRef = NoWorker
  /\ stopped = FALSE
  /\ wst = [w \in Workers |-> "unborn"]
  /\ wcancel = [w \in Workers |-> FALSE]
  /\ wmsg = [w \in Workers |-> NoMsg]
  /\ wdl = [w \in Workers |-> NoTimer]
  /\ stopPc = [s \in Stoppers |-> NoWorker]
  /\ connected = FALSE
  /\ transport = FALSE
  /\ rxq = <<>>
  /\ cpc = [k \in Connectors |-> "idle"]
  /\ cdl = [k \in Connectors |-> NoTimer]
  /\ devPending = 0
  /\ localPort = DefaultPort
  /\ socks = 0
  /\ hpc = "idle"
  /\ hdl = NoTimer
  /\ battery = NoBattery
  /\ log = [t \in Tasks |-> <<>>]
  /\ resp = [t \in Tasks |-> <<>>]
  /\ graceLeft = [t \in Tasks |-> NoTimer]
  /\ pushLog = <<>>
  /\ sendLog = <<>>
  /\ ncCalls = {}
  /\ wire = {}
  /\ stale = [e \in Exchangers |-> 0]
  /\ hadStale = {}
  /\ staleReply = {}
  /\ lastConn = "none"
  /\ waited = [e \in Exchangers |-> 0]
  /\ owed = <<>>
  /\ rxfrom = <<>>
  /\ crossed = {}
  /\ bclosed = [ch \in Chans |-> FALSE]
  /\ bpolicy = [ch \in Chans |-> "drop_oldest"]
  /\ bsubs = [ch \in Chans |-> <<>>]
  /\ sq = [s \in Subs |-> <<>>]
  /\ smax = [s \in Subs |-> 0]
  /\ sch = [s \in Subs |-> "-"]
  /\ spc = [s \in Subs |-> "new"]
  /\ npub = 0
  /\ got = [s \in Subs |-> <<>>]
  /\ pubs = [s \in Subs |-> <<>>]
  /\ mixed = [s \in Subs |-> FALSE]
  /\ lateSub = {}
  /\ ppc = [p \in Pubs |-> "idle"]
  /\ pitem = [p \in Pubs |-> 0]
  /\ prest = [p \in Pubs |-> <<>>]
  /\ putters = [s \in Subs |-> <<>>]
  /\ mpc = "none"
  /\ fail_count = 0
  /\ max_fail = DefaultMaxFail
  /\ mlog = <<>>
  /\ mrun = 0
  /\ mbeats = 0

\* ------------------------------------------------------------- helpers
Status(ok) == IF ok = 1 THEN OK ELSE ERR_GENERIC

\* Log entries: <<"ev", name, severity, attempt>> for a published event,
\* <<"cb", status, detail, attempt>> for a dispatched user callback.
AckEvent(status, a) ==
  IF status = OK THEN <<"ev", "ack_success", 0, a>> ELSE <<"ev", "ack_fail", 2, a>>

CbEntry(status, kind, a) == <<"cb", status, kind, a>>

\* When a driver response comes in: before the attempt's deadline fired,
\* within grace_ms of it, or later.
Phase(t) ==
  IF graceLeft[t] = NoTimer THEN "before"
  ELSE IF graceLeft[t] > 0 THEN "grace" ELSE "late"

\* A push that enqueues the message twice.
AcceptTwice(id, c, a) ==
  /\ Len(q) < QMaxSize - 1
  /\ q' = q \o << [task_id |-> id, cmd |-> c, att |-> a],
                  [task_id |-> id, cmd |-> c, att |-> a] >>
  /\ pushLog' = pushLog \o <<id, id>>

\* CmdQueue.push: self._q.put has room, the message is accepted.
Accept(id, c, a) ==
  /\ Len(q) < QMaxSize
  /\ q' = Append(q, [task_id |-> id, cmd |-> c, att |-> a])
  /\ pushLog' = Append(pushLog, id)

\* A lookup that finds an entry for every task_id.
MatchedAlways(id) == TRUE

\* `inf = self._inflight.get(task_id)`: the table has an entry for the id.
Matched(id) == id \in inflight

\* A table that keeps the entry of a concluded attempt.
KeepEntry(tab, t) == tab

\* `del self._inflight[task_id]` and `self._inflight.pop(task_id, None)`.
Pop(tab, t) == tab \ {t}

\* TaskScheduler._on_driver_resp(cmd, ok, payload) with payload.task_id = id.
OnDriverResp(id, ok, kind) ==
  IF id \in Tasks
  THEN /\ resp' = [resp EXCEPT ![id] = Append(@, <<ok, kind, Phase(id), id \in inflight, attempt[id]>>)]
       /\ IF ~Matched(id)
          THEN UNCHANGED <<fut, delivered, log>>
          ELSE /\ fut' = IF fut[id].st = "pending"
                         THEN [fut EXCEPT ![id] = [st |-> "result", ok |-> ok, kind |-> kind]]
                         ELSE fut
               /\ IF ~delivered[id]
                  THEN /\ delivered' = [delivered EXCEPT ![id] = TRUE]
                       /\ log' = [log EXCEPT ![id] =
                                   @ \o <<CbEntry(Status(ok), kind, attempt[id]),
                                          AckEvent(Status(ok), attempt[id])>>]
                  ELSE UNCHANGED <<delivered, log>>
  ELSE UNCHANGED <<resp, fut, delivered, log>>

\* ------------------------------------------------------- TaskScheduler
\* submit(msg, cb): create the runner task; it runs at a later loop step.
Submit(t, c) ==
  /\ pc[t] = "new"
  /\ pc' = [pc EXCEPT ![t] = "start"]
  /\ cmd' = [cmd EXCEPT ![t] = c]
  /\ UNCHANGED <<attempt, fut, inflight, delivered, deadline,
                 queueVars, drvVars, histVars>>
  /\ UNCHANGED <<hbVars, wireVars>>
  /\ UNCHANGED <<busVars, monVars, replyVars>>

\* _run_task, top of the loop body: new future, new InFlight entry, then
\* `await self._queue.push`.  Entered at the runner's first step and when
\* the backoff sleep is over.
BeginAttempt(t) ==
  /\ pc[t] \in {"start", "backoff"}
  /\ pc[t] = "backoff" => deadline[t] = 0
  /\ fut' = [fut EXCEPT ![t] = NoFut]
  /\ inflight' = inflight \cup {t}
  /\ delivered' = [delivered EXCEPT ![t] = FALSE]
  /\ graceLeft' = [graceLeft EXCEPT ![t] = NoTimer]
  /\ pc' = [pc EXCEPT ![t] = "push"]
  /\ deadline' = [deadline EXCEPT ![t] = NoTimer]
  /\ UNCHANGED <<cmd, attempt, queueVars, drvVars, log, resp, pushLog, sendLog>>
  /\ UNCHANGED <<hbVars, wireVars>>
  /\ UNCHANGED <<busVars, monVars, replyVars>>

\* The runner's push is accepted; the first wait_for arms its timer.
RunnerPush(t) ==
  /\ pc[t] = "push"
  /\ Accept(t, cmd[t], attempt[t])
  /\ pc' = [pc EXCEPT ![t] = "wait"]
  /\ deadline' = [deadline EXCEPT ![t] = TimeoutTicks]
  /\ UNCHANGED <<cmd, attempt, fut, inflight, delivered, dpc, dcmd, workerRef,
                 stopped, wst, wcancel, wmsg, wdl, stopPc, drvVars, log, resp,
                 graceLeft, sendLog>>
  /\ UNCHANGED <<hbVars, wireVars>>
  /\ UNCHANGED <<busVars, monVars, replyVars>>

\* Tasks whose user callback raises when it is invoked.
RaisingCbs == {"t2"}

\* _dispatch_cb: the callback runs in a task of its own, inside try/except
\* Exception; whether it raises or not, the caller goes on to its next step.
AfterCallback(t, next) == next

\* First wait_for returns the future's result (lines 116-129).
RunnerAck(t) ==
  /\ pc[t] = "wait"
  /\ fut[t].st = "result"
  /\ log' = [log EXCEPT ![t] =
              @ \o <<CbEntry(Status(fut[t].ok), fut[t].kind, attempt[t]),
                     AckEvent(Status(fut[t].ok), attempt[t])>>]
  /\ inflight' = Pop(inflight, t)
  /\ pc' = [pc EXCEPT ![t] = AfterCallback(t, "done")]
  /\ deadline' = [deadline EXCEPT ![t] = NoTimer]
  /\ UNCHANGED <<cmd, attempt, fut, delivered, queueVars, drvVars,
                 resp, graceLeft, pushLog, sendLog>>
  /\ UNCHANGED <<hbVars, wireVars>>
  /\ UNCHANGED <<busVars, monVars, replyVars>>

\* What wait_for does to the future it was given when its timer fires.
WaitForExpired(f) == [f EXCEPT !.st = "cancelled"]

\* The timer of the first wait_for fires while the future is pending.
Deadline(t) ==
  /\ pc[t] = "wait"
  /\ fut[t].st = "pending"
  /\ deadline[t] = 0
  /\ fut' = [fut EXCEPT ![t] = WaitForExpired(@)]
  /\ graceLeft' = [graceLeft EXCEPT ![t] = GraceTicks]
  /\ pc' = [pc EXCEPT ![t] = "timedout"]
  /\ deadline' = [deadline EXCEPT ![t] = NoTimer]
  /\ UNCHANGED <<cmd, attempt, inflight, delivered, queueVars, drvVars,
                 log, resp, pushLog, sendLog>>
  /\ UNCHANGED <<hbVars, wireVars>>
  /\ UNCHANGED <<busVars, monVars, replyVars>>

\* except TimeoutError: publish `timeout`, start the grace wait (130-142).
RunnerTimeout(t) ==
  /\ pc[t] = "timedout"
  /\ log' = [log EXCEPT ![t] = Append(@, <<"ev", "timeout", 2, attempt[t]>>)]
  /\ pc' = [pc EXCEPT ![t] = "grace"]
  /\ deadline' = [deadline EXCEPT ![t] = GraceTicks]
  /\ UNCHANGED <<cmd, attempt, fut, inflight, delivered, queueVars, drvVars,
                 resp, graceLeft, pushLog, sendLog>>
  /\ UNCHANGED <<hbVars, wireVars>>
  /\ UNCHANGED <<busVars, monVars, replyVars>>

\* The grace wait_for ends (lines 141-173): a cancelled future raises
\* CancelledError through the runner (the finally still pops the entry); a
\* result is delivered unless delivered already; a pending future times out
\* at the grace deadline, and then assume / retry / 1201.
RunnerGrace(t) ==
  /\ pc[t] = "grace"
  /\ fut[t].st = "pending" => deadline[t] = 0
  /\ inflight' = Pop(inflight, t)
  /\ IF fut[t].st = "cancelled"
     THEN /\ pc' = [pc EXCEPT ![t] = "cancelled"]
          /\ deadline' = [deadline EXCEPT ![t] = NoTimer]
          /\ UNCHANGED <<fut, delivered, log, attempt>>
     ELSE IF fut[t].st = "result"
     THEN /\ pc' = [pc EXCEPT ![t] = "done"]
          /\ deadline' = [deadline EXCEPT ![t] = NoTimer]
          /\ IF t \in inflight /\ delivered[t]
             THEN UNCHANGED <<delivered, log>>
             ELSE /\ log' = [log EXCEPT ![t] =
                              @ \o <<CbEntry(Status(fut[t].ok), fut[t].kind, attempt[t]),
                                     AckEvent(Status(fut[t].ok), attempt[t])>>]
                  /\ delivered' = [delivered EXCEPT ![t] = TRUE]
          /\ UNCHANGED <<fut, attempt>>
     ELSE /\ fut' = [fut EXCEPT ![t] = WaitForExpired(@)]
          /\ UNCHANGED delivered
          /\ IF cmd[t] \in assume_ok_cmds
             THEN /\ log' = [log EXCEPT ![t] =
                              @ \o <<CbEntry(OK, "assumed", attempt[t]),
                                     <<"ev", "ack_success_assumed", 1, attempt[t]>> >>]
                  /\ pc' = [pc EXCEPT ![t] = "done"]
                  /\ deadline' = [deadline EXCEPT ![t] = NoTimer]
                  /\ UNCHANGED attempt
             ELSE IF attempt[t] < RetryMax
             THEN /\ pc' = [pc EXCEPT ![t] = "backoff"]
                  /\ deadline' = [deadline EXCEPT ![t] = BackoffTicks]
                  /\ attempt' = [attempt EXCEPT ![t] = @ + 1]
                  /\ UNCHANGED log
             ELSE /\ log' = [log EXCEPT ![t] = Append(@, CbEntry(ERR_TIMEOUT, "timeout", attempt[t]))]
                  /\ pc' = [pc EXCEPT ![t] = "done"]
                  /\ deadline' = [deadline EXCEPT ![t] = NoTimer]
                  /\ UNCHANGED attempt
  /\ UNCHANGED <<cmd, queueVars, drvVars, resp, graceLeft, pushLog, sendLog>>
  /\ UNCHANGED <<hbVars, wireVars>>
  /\ UNCHANGED <<busVars, monVars, replyVars>>

\* ------------------------------------------------------------ CmdQueue
\* A caller other than the scheduler calls CmdQueue.push(msg).
DirectPush(d, c) ==
  /\ dpc[d] = "idle"
  /\ dcmd' = [dcmd EXCEPT ![d] = c]
  /\ dpc' = [dpc EXCEPT ![d] = "push"]
  /\ UNCHANGED <<schedVars, q, workerRef, stopped, wst, wcancel, wmsg, wdl, stopPc,
                 drvVars, histVars>>
  /\ UNCHANGED <<hbVars, wireVars>>
  /\ UNCHANGED <<busVars, monVars, replyVars>>

DirectAccept(d) ==
  /\ dpc[d] = "push"
  /\ Accept(d, dcmd[d], 0)
  /\ dpc' = [dpc EXCEPT ![d] = "done"]
  /\ UNCHANGED <<schedVars, dcmd, workerRef, stopped, wst, wcancel, wmsg, wdl,
                 stopPc, drvVars, log, resp, graceLeft, sendLog>>
  /\ UNCHANGED <<hbVars, wireVars>>
  /\ UNCHANGED <<busVars, monVars, replyVars>>

\* CmdQueue.start(): only when self._worker is None.
Start ==
  /\ workerRef = NoWorker
  /\ \E w \in Workers :
       /\ wst[w] = "unborn"
       /\ \A v \in Workers : v < w => wst[v] # "unborn"
       /\ wst' = [wst EXCEPT ![w] = "new"]
       /\ workerRef' = w
  /\ UNCHANGED <<schedVars, q, dpc, dcmd, stopped, wcancel, wmsg, wdl, stopPc,
                 drvVars, histVars>>
  /\ UNCHANGED <<hbVars, wireVars>>
  /\ UNCHANGED <<busVars, monVars, replyVars>>

\* CmdQueue.stop() up to `await self._worker`; a worker that is already done
\* is not waited for.
StopBegin(s) ==
  /\ stopPc[s] = NoWorker
  /\ stopped' = TRUE
  /\ IF workerRef = NoWorker
     THEN UNCHANGED <<workerRef, wcancel, stopPc>>
     ELSE IF wst[workerRef] = "dead"
     THEN /\ workerRef' = NoWorker
          /\ UNCHANGED <<wcancel, stopPc>>
     ELSE /\ wcancel' = [wcancel EXCEPT ![workerRef] = TRUE]
          /\ stopPc' = [stopPc EXCEPT ![s] = workerRef]
          /\ UNCHANGED workerRef
  /\ UNCHANGED <<schedVars, q, dpc, dcmd, wst, wmsg, wdl, drvVars, histVars>>
  /\ UNCHANGED <<hbVars, wireVars>>
  /\ UNCHANGED <<busVars, monVars, replyVars>>

\* CmdQueue.stop() after the awaited worker has ended: self._worker = None.
StopEnd(s) ==
  /\ stopPc[s] # NoWorker
  /\ wst[stopPc[s]] = "dead"
  /\ workerRef' = NoWorker
  /\ stopPc' = [stopPc EXCEPT ![s] = NoWorker]
  /\ UNCHANGED <<schedVars, q, dpc, dcmd, stopped, wst, wcancel, wmsg, wdl,
                 drvVars, histVars>>
  /\ UNCHANGED <<hbVars, wireVars>>
  /\ UNCHANGED <<busVars, monVars, replyVars>>

\* `while not self._stopped.is_set()`: where a worker goes after a pass.
LoopTop == IF stopped THEN "dead" ELSE "get"

\* First step of a worker task: a task cancelled before it ran never runs.
WorkerBegin(w) ==
  /\ wst[w] = "new"
  /\ wst' = [wst EXCEPT ![w] = IF wcancel[w] THEN "dead" ELSE LoopTop]
  /\ wcancel' = [wcancel EXCEPT ![w] = FALSE]
  /\ UNCHANGED <<schedVars, q, dpc, dcmd, workerRef, stopped, wmsg, wdl, stopPc,
                 drvVars, histVars>>
  /\ UNCHANGED <<hbVars, wireVars>>
  /\ UNCHANGED <<busVars, monVars, replyVars>>

\* The wait of exchange e is over: accepted line, timeout or cancellation.
EndWait(e) == [waited EXCEPT ![e] = 0]

\* The cancellation reaches a worker suspended in q.get() or in send_cmd.
WorkerCancelled(w) ==
  /\ wst[w] \in {"get", "send"}
  /\ wcancel[w]
  /\ wst' = [wst EXCEPT ![w] = "dead"]
  /\ wcancel' = [wcancel EXCEPT ![w] = FALSE]
  /\ wmsg' = [wmsg EXCEPT ![w] = NoMsg]
  /\ wdl' = [wdl EXCEPT ![w] = NoTimer]
  /\ waited' = IF wst[w] = "send" THEN EndWait("send") ELSE waited
  /\ UNCHANGED <<schedVars, q, dpc, dcmd, workerRef, stopped, stopPc,
                 drvVars, histVars>>
  /\ UNCHANGED <<hbVars, ncCalls, wire, stale, hadStale, staleReply, lastConn>>
  /\ UNCHANGED <<busVars, monVars, replyVars>>

\* A worker that takes the newest message instead of the oldest.
NextMsgNewest == q[Len(q)]

\* cmd.strip() on the commands of the model.
Strip(c) == IF c = " " THEN "" ELSE c

\* accept_pred of connect and send_cmd, and of heartbeat (str.isdigit).
IsOkOrError(line) == line \in {"ok", "error"}
IsDigits(line) == line = "87"

\* int(resp) of an accepted heartbeat reply.
IntOf(line) == IF line = "87" THEN 87 ELSE NoBattery

\* A receive queue left as it is.
KeepRx == rxq

\* _drain_rx_queue(): get_nowait until QueueEmpty.
DrainRx == <<>>

\* transport.sendto(b""): asyncio 3.11 drops empty data, later releases send
\* a zero-length datagram; every other text is written.
SendtoOutcomes(text) == IF text = "" THEN {TRUE, FALSE} ELSE {TRUE}

Min(a, b) == IF a < b THEN a ELSE b

\* _send_and_wait up to its first suspension: drain, then sendto.
BeginExchange(e, who, text) ==
  /\ rxq' = DrainRx
  /\ waited' = [waited EXCEPT ![e] = 0]
  /\ hadStale' = IF rxq # <<>> THEN hadStale \cup {e} ELSE hadStale \ {e}
  /\ stale' = [x \in Exchangers |->
                 IF x = e THEN Len(rxq') ELSE Min(stale[x], Len(rxq'))]
  /\ rxfrom' = IF rxq' = <<>> THEN <<>> ELSE rxfrom
  /\ UNCHANGED crossed
  /\ \E written \in SendtoOutcomes(text) :
       /\ wire' = IF written THEN wire \cup {<<who, text>>} ELSE wire
       /\ devPending' = IF written THEN devPending + 1 ELSE devPending
       /\ owed' = IF written THEN Append(owed, who) ELSE owed

\* `resp = await wait_for(self._rx_queue.get(), timeout)` returns a line to
\* exchange e, whose predicate accepts it or not.
TakeLine(e, accepted) ==
  /\ rxq' = Tail(rxq)
  /\ rxfrom' = Tail(rxfrom)
  /\ UNCHANGED owed
  /\ waited' = IF accepted THEN EndWait(e) ELSE waited
  /\ stale' = [x \in Exchangers |-> IF stale[x] > 0 THEN stale[x] - 1 ELSE 0]
  /\ staleReply' = IF accepted /\ stale[e] > 0 THEN staleReply \cup {e} ELSE staleReply

\* send_cmd's report of an accepted line: ok and the payload's kind.
ReplyAlwaysOk(line) == 1

ReplyOk(line) == IF line = "ok" THEN 1 ELSE 0

ReplyDetail(line) == IF line = "ok" THEN "ack" ELSE "error"

\* A worker that the exception of send_cmd ends.
EndsOnRaise == "dead"

\* _worker_loop: `except Exception` logs what send_cmd raised, the finally
\* marks the entry done and the loop goes round.
AfterRaise == LoopTop

\* A get that leaves the message it returned in the queue.
KeepQ == q

\* self._q.get(): the message the worker takes, and what stays queued.
NextMsg == Head(q)
RestQ == Tail(q)

\* _worker_loop: q.get() returns, driver.send_cmd runs up to its first
\* suspension.  Not connected: send_cmd calls self.reconnect_if_needed(),
\* which _TelloDriver does not define; the AttributeError is caught by the
\* worker, which goes on.  Connected: drain, write, wait for a reply.
WorkerPop(w) ==
  /\ wst[w] = "get"
  /\ ~wcancel[w]
  /\ q # <<>>
  /\ q' = RestQ
  /\ sendLog' = Append(sendLog, NextMsg.task_id)
  /\ IF ~connected \/ ~transport
     THEN /\ wst' = [wst EXCEPT ![w] = AfterRaise]
          /\ ncCalls' = ncCalls \cup {NextMsg.task_id}
          /\ UNCHANGED <<wmsg, wdl, rxq, devPending, wire, stale, hadStale, waited,
                         replyVars>>
     ELSE /\ wst' = [wst EXCEPT ![w] = "send"]
          /\ wmsg' = [wmsg EXCEPT ![w] = NextMsg]
          /\ wdl' = [wdl EXCEPT ![w] = TimeoutTicks]
          /\ BeginExchange("send", NextMsg.task_id, Strip(NextMsg.cmd))
          /\ UNCHANGED ncCalls
  /\ UNCHANGED <<schedVars, dpc, dcmd, workerRef, stopped, wcancel, stopPc,
                 connected, transport, cpc, cdl, hbVars, log, resp, graceLeft,
                 pushLog, staleReply, lastConn>>
  /\ UNCHANGED <<busVars, monVars>>

\* send_cmd gets a line accepted by its predicate and reports it.
WorkerRecv(w) ==
  /\ wst[w] = "send"
  /\ rxq # <<>>
  /\ TakeLine("send", IsOkOrError(Head(rxq)))
  /\ IF IsOkOrError(Head(rxq))
     THEN /\ OnDriverResp(wmsg[w].task_id, ReplyOk(Head(rxq)), ReplyDetail(Head(rxq)))
          /\ wst' = [wst EXCEPT ![w] = LoopTop]
          /\ wmsg' = [wmsg EXCEPT ![w] = NoMsg]
          /\ wdl' = [wdl EXCEPT ![w] = NoTimer]
          /\ crossed' = IF Head(rxfrom) = wmsg[w].task_id THEN crossed
                         ELSE crossed \cup {<<wmsg[w].task_id, Head(rxfrom)>>}
     ELSE /\ wdl' = [wdl EXCEPT ![w] = TimeoutTicks]
          /\ UNCHANGED <<wst, wmsg, resp, fut, delivered, log, crossed>>
  /\ UNCHANGED <<pc, cmd, attempt, inflight, deadline, q, dpc, dcmd, workerRef,
                 stopped, wcancel, stopPc, connected, transport, cpc, cdl, devPending,
                 hbVars, graceLeft, pushLog, sendLog, ncCalls, wire, hadStale,
                 lastConn>>
  /\ UNCHANGED <<busVars, monVars>>

\* The runner's timer for the message a worker is sending was armed at the
\* push, before the worker's own: when both are due the runner's fires first.
RunnerTimerFirst(m) ==
  /\ m.task_id \in Tasks
  /\ pc[m.task_id] = "wait"
  /\ attempt[m.task_id] = m.att
  /\ fut[m.task_id].st = "pending"
  /\ deadline[m.task_id] = 0

\* send_cmd times out waiting: assumed success for takeoff/land, else timeout.
WorkerTimeout(w) ==
  /\ wst[w] = "send"
  /\ rxq = <<>>
  /\ wdl[w] = 0
  /\ ~RunnerTimerFirst(wmsg[w])
  /\ IF wmsg[w].cmd \in assumable_cmds
     THEN OnDriverResp(wmsg[w].task_id, 1, "assumed")
     ELSE OnDriverResp(wmsg[w].task_id, 0, "timeout")
  /\ wst' = [wst EXCEPT ![w] = LoopTop]
  /\ wmsg' = [wmsg EXCEPT ![w] = NoMsg]
  /\ wdl' = [wdl EXCEPT ![w] = NoTimer]
  /\ UNCHANGED <<pc, cmd, attempt, inflight, deadline, q, dpc, dcmd, workerRef,
                 stopped, wcancel, stopPc, drvVars, hbVars, graceLeft, pushLog,
                 sendLog, ncCalls, wire, stale, hadStale, staleReply, lastConn>>
  /\ waited' = EndWait("send")
  /\ UNCHANGED <<busVars, monVars, replyVars>>

\* ------------------------------------------------------ driver, device
\* loop.create_datagram_endpoint binds (0.0.0.0, local_port) before it first
\* suspends: with a fixed port a second bind fails with EADDRINUSE, with
\* port 0 every bind gets a port of its own.
BindFails == localPort # 0 /\ socks > 0

\* configure(local_port=p), called before connect().
Configure(p) ==
  /\ p # localPort
  /\ socks = 0
  /\ \A k \in Connectors : cpc[k] = "idle"
  /\ localPort' = p
  /\ UNCHANGED <<schedVars, queueVars, drvVars, socks, hpc, hdl, battery,
                 histVars, wireVars>>
  /\ UNCHANGED <<busVars, monVars, replyVars>>

\* connect() up to its first suspension.  With a transport: drain, write
\* `command`, wait.  Without one: _ensure_socket binds a socket and suspends
\* in create_datagram_endpoint, or the bind raises OSError.
ConnectBegin(k) ==
  /\ cpc[k] = "idle"
  /\ transport \/ BindFails \/ socks < MaxSocks
  /\ IF transport
     THEN /\ BeginExchange(k, k, "command")
          /\ cpc' = [cpc EXCEPT ![k] = "wait"]
          /\ cdl' = [cdl EXCEPT ![k] = ConnectTicks]
          /\ UNCHANGED socks
     ELSE IF BindFails
     THEN /\ cpc' = [cpc EXCEPT ![k] = "done"]
          /\ UNCHANGED <<socks, cdl, rxq, devPending, wire, stale, hadStale, waited,
                         replyVars>>
     ELSE /\ socks' = socks + 1
          /\ cpc' = [cpc EXCEPT ![k] = "sock"]
          /\ UNCHANGED <<cdl, rxq, devPending, wire, stale, hadStale, waited,
                         replyVars>>
  /\ UNCHANGED <<schedVars, queueVars, connected, transport, localPort, hpc, hdl,
                 battery, histVars, ncCalls, staleReply, lastConn>>
  /\ UNCHANGED <<busVars, monVars>>

\* create_datagram_endpoint returns: self._transport = transport, then the
\* handshake is written.
ConnectSock(k) ==
  /\ cpc[k] = "sock"
  /\ transport' = TRUE
  /\ BeginExchange(k, k, "command")
  /\ cpc' = [cpc EXCEPT ![k] = "wait"]
  /\ cdl' = [cdl EXCEPT ![k] = ConnectTicks]
  /\ UNCHANGED <<schedVars, queueVars, connected, hbVars, histVars, ncCalls,
                 staleReply, lastConn>>
  /\ UNCHANGED <<busVars, monVars>>

\* connect() gets a line: `ok` sets connected, `error` leaves it as it was,
\* any other line is dropped and the wait starts again.
ConnectRecv(k) ==
  /\ cpc[k] = "wait"
  /\ rxq # <<>>
  /\ TakeLine(k, IsOkOrError(Head(rxq)))
  /\ IF IsOkOrError(Head(rxq))
     THEN /\ connected' = IF Head(rxq) = "ok" THEN TRUE ELSE connected
          /\ lastConn' = Head(rxq)
          /\ cpc' = [cpc EXCEPT ![k] = "done"]
          /\ cdl' = [cdl EXCEPT ![k] = NoTimer]
     ELSE /\ cdl' = [cdl EXCEPT ![k] = ConnectTicks]
          /\ UNCHANGED <<connected, cpc, lastConn>>
  /\ UNCHANGED <<schedVars, queueVars, transport, devPending, hbVars, histVars,
                 ncCalls, wire, hadStale>>
  /\ UNCHANGED <<busVars, monVars, crossed>>

ConnectTimeout(k) ==
  /\ cpc[k] = "wait"
  /\ rxq = <<>>
  /\ cdl[k] = 0
  /\ cpc' = [cpc EXCEPT ![k] = "done"]
  /\ cdl' = [cdl EXCEPT ![k] = NoTimer]
  /\ lastConn' = "timeout"
  /\ waited' = EndWait(k)
  /\ UNCHANGED <<schedVars, queueVars, connected, transport, rxq, devPending,
                 hbVars, histVars, ncCalls, wire, stale, hadStale, staleReply>>
  /\ UNCHANGED <<busVars, monVars, replyVars>>

\* The caller whose connect() returned calls connect() again.
ConnectAgain(k) ==
  /\ cpc[k] = "done"
  /\ devPending < MaxPending
  /\ cpc' = [cpc EXCEPT ![k] = "idle"]
  /\ UNCHANGED <<schedVars, queueVars, connected, transport, rxq, cdl, devPending,
                 hbVars, histVars, wireVars>>
  /\ UNCHANGED <<busVars, monVars, replyVars>>

\* close(): release the transport the driver holds.
Close ==
  /\ transport
  /\ transport' = FALSE
  /\ connected' = FALSE
  /\ socks' = socks - 1
  /\ lastConn' = "closed"
  /\ UNCHANGED <<schedVars, queueVars, rxq, cpc, cdl, devPending, localPort, hpc,
                 hdl, battery, histVars, ncCalls, wire, stale, hadStale, staleReply,
                 waited>>
  /\ UNCHANGED <<busVars, monVars, replyVars>>

\* ------------------------------------------------------- state monitor
\* What the monitor passes to publish_state / publish_event; run is the
\* number of failed heartbeats in a row when it did.
StatePayload(bat) == [name |-> "state", sev |-> 0, n |-> bat, run |-> 0]
EventPayload(name, sev, n, run) == [name |-> name, sev |-> sev, n |-> n, run |-> run]

\* The values driver.reconnect_if_needed() returns: none, the call raises
\* AttributeError, _TelloDriver has no such method.
ReconnectOutcomes == {}

\* StateMonitor._run from the return of driver.heartbeat() to its next
\* suspension, the period wait, or to the exception that ends the task.
AfterHeartbeat(rc, bat) ==
  /\ UNCHANGED max_fail
  /\ IF rc = 0
     THEN /\ fail_count' = 0
          /\ mrun' = 0
          /\ mlog' = Append(mlog, StatePayload(bat))
          /\ mpc' = "sleep"
     ELSE LET n == fail_count + 1
              failed == Append(mlog, EventPayload("heartbeat_fail", 1, n, mrun + 1))
              tried == Append(failed, EventPayload("reconnect_try", 2, 0, mrun + 1))
          IN
          IF n < max_fail
          THEN /\ fail_count' = n
               /\ mrun' = mrun + 1
               /\ mlog' = failed
               /\ mpc' = "sleep"
          ELSE IF ReconnectOutcomes = {}
          THEN /\ fail_count' = n
               /\ mrun' = mrun + 1
               /\ mlog' = tried
               /\ mpc' = "dead"
          ELSE \E rc2 \in ReconnectOutcomes :
                 /\ fail_count' = IF rc2 = 0 THEN 0 ELSE n
                 /\ mrun' = IF rc2 = 0 THEN 0 ELSE mrun + 1
                 /\ mlog' = Append(tried,
                                   IF rc2 = 0
                                   THEN EventPayload("reconnect_success", 0, 0, 0)
                                   ELSE EventPayload("reconnect_fail", 3, 0, mrun + 1))
                 /\ mpc' = "sleep"

\* StateMonitor(max_heartbeat_fail=mf) in place of the default.
MonitorNew(mf) ==
  /\ mpc = "none"
  /\ mbeats = 0
  /\ (IF mf > 1 THEN mf ELSE 1) # max_fail
  /\ max_fail' = IF mf > 1 THEN mf ELSE 1
  /\ fail_count' = 0
  /\ UNCHANGED <<mpc, mlog, mrun, mbeats>>
  /\ UNCHANGED <<schedVars, queueVars, drvVars, hbVars, histVars, wireVars, busVars,
                 replyVars>>

\* start(): a new task if there is none or it is done; _fail_count is kept.
MonitorStart ==
  /\ mpc \in {"none", "dead"}
  /\ mpc' = "top"
  /\ mrun' = 0
  /\ UNCHANGED <<fail_count, max_fail, mlog, mbeats>>
  /\ UNCHANGED <<schedVars, queueVars, drvVars, hbVars, histVars, wireVars, busVars,
                 replyVars>>

\* stop(): the task is cancelled and awaited, at its heartbeat or its wait.
MonitorStop ==
  /\ mpc \in {"top", "hb", "sleep"}
  /\ mpc' = "none"
  /\ hpc' = IF mpc = "hb" THEN "idle" ELSE hpc
  /\ hdl' = IF mpc = "hb" THEN NoTimer ELSE hdl
  /\ waited' = IF mpc = "hb" THEN EndWait("hb") ELSE waited
  /\ UNCHANGED <<fail_count, max_fail, mlog, mrun, mbeats>>
  /\ UNCHANGED <<schedVars, queueVars, drvVars, localPort, socks, battery, histVars,
                 ncCalls, wire, stale, hadStale, staleReply, lastConn, busVars,
                 replyVars>>

\* `rc = await driver.heartbeat()` at the top of the loop: -1 at once without
\* a transport, else the battery? exchange begins.
MonitorBeat ==
  /\ mpc = "top"
  /\ mbeats < MaxBeats
  /\ mbeats' = mbeats + 1
  /\ IF transport
     THEN /\ hpc = "idle"
          /\ devPending < MaxPending
          /\ BeginExchange("hb", "hb", "battery?")
          /\ hpc' = "wait"
          /\ hdl' = HbTicks
          /\ mpc' = "hb"
          /\ UNCHANGED <<fail_count, max_fail, mlog, mrun>>
          /\ UNCHANGED <<connected, transport, cpc, cdl, localPort, socks, battery,
                         ncCalls, staleReply, lastConn>>
     ELSE /\ AfterHeartbeat(-1, battery)
          /\ UNCHANGED <<drvVars, hbVars, wireVars, replyVars>>
  /\ UNCHANGED <<schedVars, queueVars, histVars, busVars>>

\* The period wait is over: the next tick of the loop.
MonitorWake ==
  /\ mpc = "sleep"
  /\ mpc' = "top"
  /\ UNCHANGED <<fail_count, max_fail, mlog, mrun, mbeats>>
  /\ UNCHANGED <<schedVars, queueVars, drvVars, hbVars, histVars, wireVars, busVars,
                 replyVars>>

\* heartbeat() with a transport: drain, write `battery?`, wait.
HbBegin ==
  /\ hpc = "idle"
  /\ transport
  /\ devPending < MaxPending
  /\ BeginExchange("hb", "hb", "battery?")
  /\ hpc' = "wait"
  /\ hdl' = HbTicks
  /\ UNCHANGED <<schedVars, queueVars, connected, transport, cpc, cdl, localPort,
                 socks, battery, histVars, ncCalls, staleReply, lastConn>>
  /\ UNCHANGED <<busVars, monVars>>

\* heartbeat() gets a line: digits are the battery level, any other line is
\* dropped and the wait starts again.
HbRecv ==
  /\ hpc = "wait"
  /\ rxq # <<>>
  /\ TakeLine("hb", IsDigits(Head(rxq)))
  /\ IF IsDigits(Head(rxq))
     THEN /\ battery' = IntOf(Head(rxq))
          /\ hpc' = "idle"
          /\ hdl' = NoTimer
          /\ IF mpc = "hb"
             THEN AfterHeartbeat(0, IntOf(Head(rxq))) /\ UNCHANGED mbeats
             ELSE UNCHANGED monVars
     ELSE /\ hdl' = HbTicks
          /\ UNCHANGED <<battery, hpc, monVars>>
  /\ UNCHANGED <<schedVars, queueVars, connected, transport, cpc, cdl, devPending,
                 localPort, socks, histVars, ncCalls, wire, hadStale, lastConn>>
  /\ UNCHANGED <<busVars, crossed>>

HbTimeout ==
  /\ hpc = "wait"
  /\ rxq = <<>>
  /\ hdl = 0
  /\ hpc' = "idle"
  /\ hdl' = NoTimer
  /\ IF mpc = "hb"
     THEN AfterHeartbeat(-1, battery) /\ UNCHANGED mbeats
     ELSE UNCHANGED monVars
  /\ waited' = EndWait("hb")
  /\ UNCHANGED <<schedVars, queueVars, drvVars, localPort, socks, battery,
                 histVars, ncCalls, wire, stale, hadStale, staleReply, lastConn>>
  /\ UNCHANGED <<busVars, replyVars>>

\* The device answers one of the datagrams it received; datagram_received
\* queues the line unless the socket is closed or the queue is full.
DeviceReply(line) ==
  /\ devPending > 0
  /\ devPending' = devPending - 1
  /\ rxq' = IF transport /\ Len(rxq) < RxMaxSize THEN Append(rxq, line) ELSE rxq
  /\ owed' = Tail(owed)
  /\ rxfrom' = IF transport /\ Len(rxq) < RxMaxSize
                THEN Append(rxfrom, Head(owed)) ELSE rxfrom
  /\ UNCHANGED crossed
  /\ UNCHANGED <<schedVars, queueVars, connected, transport, cpc, cdl, hbVars,
                 histVars, wireVars>>
  /\ UNCHANGED <<busVars, monVars>>

\* ---------------------------------------------------------------- clock
TimerDue ==
  \/ \E t \in Tasks : /\ deadline[t] = 0
                      /\ pc[t] \in {"wait", "grace"} => fut[t].st = "pending"
  \/ \E w \in Workers : wst[w] = "send" /\ wdl[w] = 0 /\ rxq = <<>>
  \/ \E k \in Connectors : cpc[k] = "wait" /\ cdl[k] = 0 /\ rxq = <<>>
  \/ hpc = "wait" /\ hdl = 0 /\ rxq = <<>>

Armed ==
  \/ \E t \in Tasks : deadline[t] > 0 \/ graceLeft[t] > 0
  \/ \E w \in Workers : wdl[w] > 0
  \/ \E k \in Connectors : cdl[k] > 0
  \/ hdl > 0

\* Some coroutine or callback is ready to run: the loop runs it in its next
\* iteration, before any further tick of the timers goes by.
Ready ==
  \/ \E t \in Tasks :
       \/ pc[t] \in {"start", "timedout"}
       \/ pc[t] = "push" /\ Len(q) < QMaxSize
       \/ pc[t] \in {"wait", "grace"} /\ fut[t].st # "pending"
  \/ \E d \in DirectIds : dpc[d] = "push" /\ Len(q) < QMaxSize
  \/ \E w \in Workers :
       \/ wst[w] = "new"
       \/ wst[w] \in {"get", "send"} /\ wcancel[w]
       \/ wst[w] = "get" /\ q # <<>>
       \/ wst[w] = "send" /\ rxq # <<>>
  \/ \E s \in Stoppers : stopPc[s] # NoWorker /\ wst[stopPc[s]] = "dead"
  \/ \E k \in Connectors : cpc[k] = "sock" \/ (cpc[k] = "wait" /\ rxq # <<>>)
  \/ hpc = "wait" /\ rxq # <<>>
  \/ mpc = "top"

Dec(x) == IF x > 0 THEN x - 1 ELSE x

\* Exchange e is in `await wait_for(self._rx_queue.get(), timeout)`.
Waiting(e) ==
  IF e = "send" THEN \E w \in Workers : wst[w] = "send"
  ELSE IF e = "hb" THEN hpc = "wait"
  ELSE cpc[e] = "wait"

\* The timeout the caller of exchange e asked for.
Timeout(e) ==
  IF e = "send" THEN TimeoutTicks ELSE IF e = "hb" THEN HbTicks ELSE ConnectTicks

Tick ==
  /\ Armed
  /\ ~TimerDue
  /\ ~Ready
  /\ deadline' = [t \in Tasks |-> Dec(deadline[t])]
  /\ graceLeft' = [t \in Tasks |-> Dec(graceLeft[t])]
  /\ wdl' = [w \in Workers |-> Dec(wdl[w])]
  /\ cdl' = [k \in Connectors |-> Dec(cdl[k])]
  /\ hdl' = Dec(hdl)
  /\ waited' = [e \in Exchangers |->
                  IF Waiting(e) THEN Min(waited[e] + 1, MaxWait) ELSE waited[e]]
  /\ UNCHANGED <<pc, cmd, attempt, fut, inflight, delivered, q, dpc, dcmd, workerRef,
                 stopped, wst, wcancel, wmsg, stopPc, connected, transport, rxq, cpc,
                 devPending, localPort, socks, hpc, battery, log, resp, pushLog,
                 sendLog, ncCalls, wire, stale, hadStale, staleReply, lastConn>>
  /\ UNCHANGED <<busVars, monVars, replyVars>>

\* ------------------------------------------------------------ event bus
\* _Broadcast(name, drop_policy) built with another policy than the default.
Construct(ch, pol) ==
  /\ pol # bpolicy[ch]
  /\ npub = 0
  /\ ~bclosed[ch]
  /\ bsubs[ch] = <<>>
  /\ bpolicy' = [bpolicy EXCEPT ![ch] = pol]
  /\ UNCHANGED <<coreVars, bclosed, bsubs, sq, smax, sch, spc, npub, got, pubs,
                 mixed, lateSub, pubVars>>

\* A subscribe call that registers the subscriber at once.
CallRegisters(subs, s) == Append(subs, s)

\* The subscriber list after subscribe_*(): the body of the async generator
\* has not run, nothing is registered.
CallSubs(subs, s) == subs

\* subscribe_state(maxsize) / subscribe_event(maxsize): the generator is
\* created, nothing runs yet.
SubscribeCall(s, ch, m) ==
  /\ spc[s] = "new"
  /\ spc' = [spc EXCEPT ![s] = "called"]
  /\ sch' = [sch EXCEPT ![s] = ch]
  /\ smax' = [smax EXCEPT ![s] = m]
  /\ bsubs' = [bsubs EXCEPT ![ch] = CallSubs(@, s)]
  /\ UNCHANGED <<coreVars, bclosed, bpolicy, sq, npub, got, pubs, mixed,
                 lateSub, pubVars>>

\* A register that puts nothing into the new queue.
RegisterEmpty(closed) == <<>>

\* register(): the new queue, holding the sentinel if the channel is closed.
RegisterQueue(closed) == IF closed THEN <<Sentinel>> ELSE <<>>

\* First iteration step: `q = await bus.register(maxsize)`, then q.get().
FirstIter(s) ==
  /\ spc[s] = "called"
  /\ sq' = [sq EXCEPT ![s] = RegisterQueue(bclosed[sch[s]])]
  /\ bsubs' = [bsubs EXCEPT ![sch[s]] = Append(@, s)]
  /\ lateSub' = IF bclosed[sch[s]] THEN lateSub \cup {s} ELSE lateSub
  /\ spc' = [spc EXCEPT ![s] = "get"]
  /\ UNCHANGED <<coreVars, bclosed, bpolicy, smax, sch, npub, got, pubs, mixed,
                 pubVars>>

Without(seq, s) == SelectSeq(seq, LAMBDA x : x # s)

\* `item = await q.get()`: the sentinel ends the iteration and unregisters
\* the queue, any other item is yielded. Queue.get_nowait wakes the first of
\* the queue's suspended putters, which runs at a later step.
Consume(s) ==
  /\ spc[s] = "get"
  /\ sq[s] # <<>>
  /\ sq' = [sq EXCEPT ![s] = Tail(@)]
  /\ IF putters[s] = <<>>
     THEN UNCHANGED <<ppc, putters>>
     ELSE /\ ppc' = [ppc EXCEPT ![Head(putters[s])] = "woken"]
          /\ putters' = [putters EXCEPT ![s] = Tail(@)]
  /\ UNCHANGED <<pitem, prest>>
  /\ IF Head(sq[s]) = Sentinel
     THEN /\ spc' = [spc EXCEPT ![s] = "ended"]
          /\ bsubs' = [bsubs EXCEPT ![sch[s]] = Without(@, s)]
          /\ UNCHANGED got
     ELSE /\ got' = [got EXCEPT ![s] = Append(@, Head(sq[s]))]
          /\ UNCHANGED <<spc, bsubs>>
  /\ UNCHANGED <<coreVars, bclosed, bpolicy, smax, sch, npub, pubs, mixed, lateSub>>

\* The consumer closes the sequence it iterates (aclose, or its task is
\* cancelled): the finally of the generator unregisters the queue.
SubClose(s) ==
  /\ spc[s] = "get"
  /\ spc' = [spc EXCEPT ![s] = "ended"]
  /\ bsubs' = [bsubs EXCEPT ![sch[s]] = Without(@, s)]
  /\ UNCHANGED <<coreVars, bclosed, bpolicy, sq, smax, sch, npub, got, pubs, mixed,
                 lateSub, pubVars>>

\* q.full()
Full(qs, m) == m > 0 /\ Len(qs) >= m

\* A full queue that keeps what it holds.
KeepOldest(qs, item) == qs

\* drop_oldest on a full queue: get_nowait, then put_nowait(item).
DropOldest(qs, item) == Append(Tail(qs), item)

\* publish(): what one subscriber queue holds after the fan-out reached it.
Deliver(qs, m, item, pol) ==
  IF Full(qs, m)
  THEN IF pol = "drop_oldest" THEN DropOldest(qs, item) ELSE qs
  ELSE Append(qs, item)

Registered(ch) == {bsubs[ch][i] : i \in DOMAIN bsubs[ch]}

\* A publish that suspends on every full queue, whatever the policy.
BlocksWhenFull(pol, qs, m) == Full(qs, m)

\* publish(): `await q.put(item)` of the block policy suspends on a full queue.
Blocks(pol, qs, m) == pol = "block" /\ Full(qs, m)

\* The loop `for q in subs` of publish() from the queues in rest on: the
\* subscriber queues after it, and the queues not served when it suspends.
RECURSIVE FanOut(_, _, _, _)
FanOut(rest, item, pol, qs) ==
  IF rest = <<>>
  THEN [sq |-> qs, rest |-> <<>>]
  ELSE LET s == Head(rest) IN
       IF Blocks(pol, qs[s], smax[s])
       THEN [sq |-> qs, rest |-> rest]
       ELSE FanOut(Tail(rest), item, pol,
                   [qs EXCEPT ![s] = Deliver(qs[s], smax[s], item, pol)])

\* The publisher after a run of the fan-out loop: returned, or appended to
\* the putters of the full queue it awaits.
Suspend(p, item, r) ==
  IF r.rest = <<>>
  THEN /\ ppc' = [ppc EXCEPT ![p] = "idle"]
       /\ pitem' = [pitem EXCEPT ![p] = 0]
       /\ prest' = [prest EXCEPT ![p] = <<>>]
       /\ UNCHANGED putters
  ELSE /\ ppc' = [ppc EXCEPT ![p] = "put"]
       /\ pitem' = [pitem EXCEPT ![p] = item]
       /\ prest' = [prest EXCEPT ![p] = r.rest]
       /\ putters' = [putters EXCEPT ![Head(r.rest)] = Append(@, p)]

\* publish_state(payload) / publish_event(payload) with payload seq npub + 1,
\* called by publisher p, up to its return or its first suspension.
Publish(p, ch) ==
  /\ ppc[p] = "idle"
  /\ npub < MaxPub
  /\ npub' = npub + 1
  /\ IF bclosed[ch]
     THEN UNCHANGED <<sq, pubs, mixed, pubVars>>
     ELSE LET r == FanOut(bsubs[ch], npub + 1, bpolicy[ch], sq) IN
          /\ sq' = r.sq
          /\ Suspend(p, npub + 1, r)
          /\ pubs' = [s \in Subs |->
                       IF s \in Registered(ch) THEN Append(pubs[s], npub + 1) ELSE pubs[s]]
          /\ mixed' = [s \in Subs |->
                        mixed[s] \/ (s \in Registered(ch) /\ got[s] # <<>>)]
  /\ UNCHANGED <<coreVars, bclosed, bpolicy, bsubs, smax, sch, spc, got, lateSub>>

\* A woken putter runs: Queue.put checks full() again, waits again at the
\* end of the putters if another put took the slot, else puts the item and
\* goes on with the rest of the fan-out.
PublishResume(p) ==
  /\ ppc[p] = "woken"
  /\ LET r == FanOut(prest[p], pitem[p], bpolicy[sch[Head(prest[p])]], sq) IN
       /\ sq' = r.sq
       /\ Suspend(p, pitem[p], r)
  /\ UNCHANGED <<coreVars, bclosed, bpolicy, bsubs, smax, sch, spc, npub, got, pubs,
                 mixed, lateSub>>

\* close(): put_nowait(_SENTINEL), a QueueFull is swallowed.
CloseQueue(qs, m) == IF Full(qs, m) THEN qs ELSE Append(qs, Sentinel)

\* shutdown(): close() of the state bus, then of the event bus.
Shutdown ==
  /\ \E ch \in Chans : ~bclosed[ch]
  /\ bclosed' = [ch \in Chans |-> TRUE]
  /\ sq' = [s \in Subs |->
              IF \E ch \in Chans : s \in Registered(ch)
              THEN CloseQueue(sq[s], smax[s])
              ELSE sq[s]]
  /\ UNCHANGED <<coreVars, bpolicy, bsubs, smax, sch, spc, npub, got, pubs, mixed,
                 lateSub, pubVars>>

\* ------------------------------------------------------- specifications
DriverNext ==
  \/ ConnectBegin(StartupConnector)
  \/ ConnectSock(StartupConnector)
  \/ ConnectRecv(StartupConnector)
  \/ ConnectTimeout(StartupConnector)
  \/ Close
  \/ \E line \in Lines : DeviceReply(line)
  \/ Tick

\* The scheduler with its queue worker and the driver.
Next ==
  \/ \E t \in Tasks, c \in Cmds : Submit(t, c)
  \/ \E t \in Tasks : BeginAttempt(t)
  \/ \E t \in Tasks : RunnerPush(t)
  \/ \E t \in Tasks : RunnerAck(t)
  \/ \E t \in Tasks : Deadline(t)
  \/ \E t \in Tasks : RunnerTimeout(t)
  \/ \E t \in Tasks : RunnerGrace(t)
  \/ Start
  \/ \E w \in Workers : WorkerBegin(w)
  \/ \E w \in Workers : WorkerPop(w)
  \/ \E w \in Workers : WorkerRecv(w)
  \/ \E w \in Workers : WorkerTimeout(w)
  \/ DriverNext

Spec == Init /\ [][Next]_vars

\* The queue alone: direct pushers, start and stop callers, the driver.
NextQ ==
  \/ \E d \in DirectIds, c \in DirectCmds : DirectPush(d, c)
  \/ \E d \in DirectIds : DirectAccept(d)
  \/ Start
  \/ \E s \in Stoppers : StopBegin(s)
  \/ \E s \in Stoppers : StopEnd(s)
  \/ \E w \in Workers : WorkerBegin(w)
  \/ \E w \in Workers : WorkerCancelled(w)
  \/ \E w \in Workers : WorkerPop(w)
  \/ \E w \in Workers : WorkerRecv(w)
  \/ \E w \in Workers : WorkerTimeout(w)
  \/ DriverNext

SpecQ == Init /\ [][NextQ]_vars

\* The driver's connection: connect() callers that overlap and call again,
\* close(), configure().
NextD ==
  \/ \E p \in LocalPorts : Configure(p)
  \/ \E k \in Connectors : ConnectBegin(k)
  \/ \E k \in Connectors : ConnectSock(k)
  \/ \E k \in Connectors : ConnectRecv(k)
  \/ \E k \in Connectors : ConnectTimeout(k)
  \/ \E k \in Connectors : ConnectAgain(k)
  \/ Close
  \/ \E line \in Lines : DeviceReply(line)
  \/ Tick

SpecD == Init /\ [][NextD]_vars

\* The exchanges on the socket: the queue worker's send_cmd, the start-up
\* connect() and the heartbeat, with a device that sends any line.
NextX ==
  \/ \E d \in DriverIds, c \in AnyCmds : DirectPush(d, c)
  \/ \E d \in DriverIds : DirectAccept(d)
  \/ Start
  \/ \E w \in Workers : WorkerBegin(w)
  \/ \E w \in Workers : WorkerPop(w)
  \/ \E w \in Workers : WorkerRecv(w)
  \/ \E w \in Workers : WorkerTimeout(w)
  \/ ConnectBegin(StartupConnector)
  \/ ConnectSock(StartupConnector)
  \/ ConnectRecv(StartupConnector)
  \/ ConnectTimeout(StartupConnector)
  \/ HbBegin
  \/ HbRecv
  \/ HbTimeout
  \/ \E line \in AllLines : DeviceReply(line)
  \/ Tick

SpecX == Init /\ [][NextX]_vars

\* The event bus with its publishers and subscribers.
NextB ==
  \/ \E ch \in Chans, pol \in Policies : Construct(ch, pol)
  \/ \E s \in Subs, ch \in Chans, m \in SubSizes : SubscribeCall(s, ch, m)
  \/ \E s \in Subs : FirstIter(s)
  \/ \E s \in Subs : Consume(s)
  \/ \E p \in Pubs, ch \in Chans : Publish(p, ch)
  \/ \E p \in Pubs : PublishResume(p)
  \/ Shutdown

SpecB == Init /\ [][NextB]_vars

\* The subscriptions of the module-level buses (default policy): calls,
\* iterations that begin, take items, end or are closed.
NextS ==
  \/ \E s \in Subs, ch \in Chans, m \in SubSizes : SubscribeCall(s, ch, m)
  \/ \E s \in Subs : FirstIter(s)
  \/ \E s \in Subs : Consume(s)
  \/ \E s \in Subs : SubClose(s)
  \/ \E p \in Pubs, ch \in Chans : Publish(p, ch)
  \/ Shutdown

SpecS == Init /\ [][NextS]_vars

\* The state monitor with its start and stop callers and the driver.
NextM ==
  \/ \E mf \in MaxFailArgs : MonitorNew(mf)
  \/ MonitorStart
  \/ MonitorStop
  \/ MonitorBeat
  \/ MonitorWake
  \/ HbRecv
  \/ HbTimeout
  \/ ConnectBegin(StartupConnector)
  \/ ConnectSock(StartupConnector)
  \/ ConnectRecv(StartupConnector)
  \/ ConnectTimeout(StartupConnector)
  \/ Close
  \/ \E line \in AllLines : DeviceReply(line)
  \/ Tick

SpecM == Init /\ [][NextM]_vars

\* --------------------------------------------------------------- claims
CbEntries(t) == SelectSeq(log[t], LAMBDA e : e[1] = "cb")

EventsOf(t, name) == SelectSeq(log[t], LAMBDA e : e[1] = "ev" /\ e[2] = name)

PushCount(t) == Cardinality({i \in DOMAIN pushLog : pushLog[i] = t})

\* The runner of t has returned, or has died of the CancelledError.
Ended(t) == pc[t] \in {"done", "cancelled"}

Dispatched(t) == \E i \in DOMAIN sendLog : sendLog[i] = t

\* No driver response came within timeout_ms + grace_ms of the attempt.
NoTimelyResponse(t) == \A i \in DOMAIN resp[t] : resp[t][i][3] = "late"

TerminalCount(t) ==
  Len(SelectSeq(log[t], LAMBDA e :
        /\ e[1] = "ev"
        /\ \/ e[2] \in {"ack_success", "ack_fail", "ack_success_assumed"}
           \/ /\ e[2] = "timeout"
              /\ e[4] = RetryMax
              /\ \E i \in DOMAIN log[t] : log[t][i][1] = "cb" /\ log[t][i][2] = ERR_TIMEOUT))

\* C1: the user callback of a submitted task is invoked at most once, in
\* every interleaving of the task runner with the driver response path.
C1_CallbackAtMostOnce == \A t \in Tasks : Len(CbEntries(t)) <= 1

\* C2: with the queue worker running and the task's command dispatched, a
\* task never ends, and its runner never dies, without its callback having
\* been invoked.
C2_CallbackDelivered ==
  \A t \in Tasks : (Ended(t) /\ Dispatched(t)) => Len(CbEntries(t)) >= 1

\* C3: over its whole run a task publishes exactly one terminal event
\* (ack_success, ack_fail, ack_success_assumed or the final timeout): never
\* two, and not zero once the task has ended.
C3_OneTerminalEvent ==
  \A t \in Tasks :
    /\ TerminalCount(t) <= 1
    /\ Ended(t) => TerminalCount(t) = 1

\* C4: a command not in assume_ok_cmds that gets no driver response within
\* timeout_ms + grace_ms of any attempt is attempted retry_max + 1 times (one
\* push and one timeout event each) and ends with callback 1201 {timeout}.
C4_RetriesThenTimeout ==
  \A t \in Tasks :
    (Ended(t) /\ cmd[t] \notin assume_ok_cmds /\ NoTimelyResponse(t)) =>
      /\ PushCount(t) = RetryMax + 1
      /\ Len(EventsOf(t, "timeout")) = RetryMax + 1
      /\ CbEntries(t) = << CbEntry(ERR_TIMEOUT, "timeout", RetryMax) >>

\* C5: a command in assume_ok_cmds that gets no ack before deadline and grace
\* window have elapsed publishes one timeout event, then has its callback
\* invoked with status 0 {ack, assumed} and publishes ack_success_assumed
\* with severity 1, and the task is over.
C5_AssumedSuccess ==
  \A t \in Tasks :
    (Ended(t) /\ cmd[t] \in assume_ok_cmds /\ NoTimelyResponse(t)) =>
      log[t] = << <<"ev", "timeout", 2, 0>>,
                  CbEntry(OK, "assumed", 0),
                  <<"ev", "ack_success_assumed", 1, 0>> >>

\* C6: a driver response that arrives after the attempt's deadline fired and
\* before grace_ms elapsed is the task's result: one timeout event, the
\* callback exactly once with the status of that response, no retry and no
\* assumed success.
C6_LateAckDelivered ==
  \A t \in Tasks :
    (Ended(t) /\ resp[t] # <<>> /\ resp[t][1][3] = "grace") =>
      /\ Len(EventsOf(t, "timeout")) = 1
      /\ CbEntries(t) = << CbEntry(Status(resp[t][1][1]), resp[t][1][2], 0) >>
      /\ PushCount(t) = 1
      /\ EventsOf(t, "ack_success_assumed") = <<>>

\* C7: the callback's status is 0 exactly when the driver reported ok=1 (or
\* success was assumed), 1500 exactly when it reported ok=0, and 1201 exactly
\* when all attempts timed out; ok=0 ends the task with ack_fail severity 2
\* and is not retried.
C7_StatusMapping ==
  \A t \in Tasks :
    /\ \A i \in DOMAIN log[t] :
         log[t][i][1] = "cb" =>
           /\ log[t][i][2] \in {OK, ERR_GENERIC, ERR_TIMEOUT}
           /\ log[t][i][2] = OK =>
                \/ log[t][i][3] = "assumed"
                \/ \E j \in DOMAIN resp[t] : resp[t][j][1] = 1
           /\ log[t][i][2] = ERR_GENERIC =>
                \E j \in DOMAIN resp[t] : resp[t][j][1] = 0
           /\ log[t][i][2] = ERR_TIMEOUT =>
                Len(EventsOf(t, "timeout")) = RetryMax + 1
    /\ \A j \in DOMAIN resp[t] :
         resp[t][j][4] =>
           /\ \E i \in DOMAIN log[t] :
                log[t][i][1] = "cb" /\ log[t][i][2] = Status(resp[t][j][1])
           /\ resp[t][j][1] = 0 =>
                /\ \E i \in DOMAIN log[t] : log[t][i] = <<"ev", "ack_fail", 2, resp[t][j][5]>>
                /\ attempt[t] = resp[t][j][5]
                /\ pc[t] # "backoff"
    /\ (/\ Ended(t)
        /\ EventsOf(t, "timeout") # <<>>
        /\ \A j \in DOMAIN resp[t] : ~resp[t][j][4]) =>
         \E i \in DOMAIN log[t] : log[t][i][1] = "cb" /\ log[t][i][2] = ERR_TIMEOUT

\* C8: with the real driver, the timeout the driver reports for a command
\* that is not assumable stays inside the scheduler: no callback other than
\* the final 1201 is made, and the task ends after retry_max + 1 attempts
\* with status 1201.
C8_DriverTimeoutInternal ==
  \A t \in Tasks :
    (cmd[t] \notin assume_ok_cmds /\ \E j \in DOMAIN resp[t] : resp[t][j][2] = "timeout") =>
      /\ \A i \in DOMAIN log[t] : log[t][i][1] = "cb" => log[t][i][2] = ERR_TIMEOUT
      /\ Ended(t) =>
           /\ PushCount(t) = RetryMax + 1
           /\ \E i \in DOMAIN log[t] : log[t][i][1] = "cb" /\ log[t][i][2] = ERR_TIMEOUT

\* C9: the messages handed to Driver.send_cmd are, in order, the messages
\* CmdQueue.push accepted: the send order is a prefix of the push order.
C9_FifoDispatch ==
  /\ Len(sendLog) <= Len(pushLog)
  /\ \A i \in DOMAIN sendLog : sendLog[i] = pushLog[i]

\* Two messages were queued behind a third one while it was dispatched.
C9_Witness ==
  /\ sendLog = <<"d3">>
  /\ Len(q) = 2
  /\ q[1].task_id = "d1"
  /\ q[2].task_id = "d2"

LiveWorkers == {w \in Workers : wst[w] \in {"new", "get", "send"}}

\* C10: at any time at most one worker task exists and at most one send_cmd
\* issued by the queue is in progress.
C10_OneWorker ==
  /\ Cardinality(LiveWorkers) <= 1
  /\ Cardinality({w \in Workers : wst[w] = "send"}) <= 1

\* C11: after stop() followed by start() the queue has a working worker
\* again: the worker the queue holds, with no stop() waiting for it, is
\* alive and goes on dispatching the queued messages.
C11_RestartedWorkerRuns ==
  (workerRef # NoWorker /\ \A s \in Stoppers : stopPc[s] # workerRef) =>
    wst[workerRef] # "dead"

\* C12: a send_cmd entered while the driver is not connected makes the
\* response callback run exactly once with ok=0 {error: not_connected},
\* writes nothing to the wire, and the scheduler hands status 1500 to the
\* caller.
C12_NotConnectedReported ==
  \A t \in Tasks :
    t \in ncCalls =>
      /\ Len(resp[t]) = 1
      /\ resp[t][1][1] = 0
      /\ resp[t][1][2] = "not_connected"
      /\ \A x \in wire : x[1] # t
      /\ \E i \in DOMAIN log[t] : log[t][i][1] = "cb" /\ log[t][i][2] = ERR_GENERIC

SendCount(t) == Cardinality({i \in DOMAIN sendLog : sendLog[i] = t})

\* The send_cmd calls for t that have returned.
ReturnedCalls(t) ==
  SendCount(t) - Cardinality({w \in Workers : wst[w] = "send" /\ wmsg[w].task_id = t})

\* What send_cmd may report for command c: <<ok, kind of payload>>.
Reports(c) ==
  {<<1, "ack">>, <<0, "error">>} \cup
  (IF c \in {"takeoff", "land"} THEN {<<1, "assumed">>} ELSE {<<0, "timeout">>})

\* C13: every send_cmd call on a connected driver that has returned has
\* invoked the response callback exactly once, with the task id of the call:
\* ok=1 {ack} for `ok`, ok=0 {error} for `error`, and on timeout ok=1
\* {ack, assumed} for takeoff/land and ok=0 {error: timeout} otherwise.
C13_OneReportPerCall ==
  \A t \in Tasks :
    t \notin ncCalls =>
      /\ Len(resp[t]) = ReturnedCalls(t)
      /\ \A i \in DOMAIN resp[t] : <<resp[t][i][1], resp[t][i][2]>> \in Reports(cmd[t])

\* One command was answered `error`, the other, a takeoff, timed out.
C13_Witness ==
  /\ ncCalls = {}
  /\ cmd["t2"] = "takeoff"
  /\ Len(resp["t1"]) = 1 /\ resp["t1"][1][2] = "error"
  /\ Len(resp["t2"]) = 1 /\ resp["t2"][1][2] = "assumed"

\* C14: a line that is in the receive queue when send_cmd, heartbeat or the
\* connect handshake starts its exchange is never returned as the reply of
\* that exchange.
C14_NoStaleReply == staleReply = {}

\* A heartbeat that found a stray line when it started is about to get the
\* battery level the device sent in answer to it.
C14_Witness ==
  /\ hpc = "wait"
  /\ "hb" \in hadStale
  /\ rxq # <<>>
  /\ Head(rxq) = "87"
  /\ stale["hb"] = 0

\* C15: after any sequence of connect and close calls, connected is true
\* exactly when the most recent connect observed `ok` and no close followed
\* it; a connect that gets `error` or times out leaves connected false, also
\* after an earlier connect had succeeded.
C15_ConnectedIffLastOk == connected <=> (lastConn = "ok")

\* C16: at most one UDP transport is bound by the driver at any time: a
\* connect with the transport open does not bind again, and two connect
\* calls that overlap inside the socket creation do not both bind one.
C16_OneTransport == socks <= 1

\* C17: a message whose cmd is empty or blank is never written to the wire,
\* on any path from the queue to Driver.send_cmd.
C17_NoEmptyCommandSent == \A x \in wire : x[2] # ""

\* The last k elements of a sequence, all of it if it is shorter.
LastK(seq, k) ==
  IF Len(seq) <= k THEN seq ELSE SubSeq(seq, Len(seq) - k + 1, Len(seq))

Payloads(qs) == SelectSeq(qs, LAMBDA x : x # Sentinel)

\* C18: a drop_oldest subscriber with queue size K that consumed nothing
\* while N > K messages were published on its channel since it subscribed
\* observes exactly the last K of them, in publish order.
C18_LastKInOrder ==
  \A s \in Subs :
    (/\ spc[s] \in {"get", "ended"}
     /\ bpolicy[sch[s]] = "drop_oldest"
     /\ smax[s] > 0
     /\ ~mixed[s]
     /\ Len(pubs[s]) > smax[s]) =>
      got[s] \o Payloads(sq[s]) = LastK(pubs[s], smax[s])

\* Four states published to an idle subscriber of size 2, which then
\* consumed seq 3 and seq 4.
C18_Witness ==
  /\ smax["s1"] = 2
  /\ bpolicy[sch["s1"]] = "drop_oldest"
  /\ pubs["s1"] = <<1, 2, 3, 4>>
  /\ got["s1"] = <<3, 4>>
  /\ ~mixed["s1"]

\* C19: after shutdown() every subscriber that is iterating has the
\* terminal sentinel in its queue, whatever the fill level of the queue was,
\* so that its iteration ends.
C19_SentinelReachesAll ==
  \A s \in Subs :
    (spc[s] = "get" /\ bclosed[sch[s]]) =>
      \E i \in DOMAIN sq[s] : sq[s][i] = Sentinel

\* C20: a subscription whose iteration starts after shutdown() yields no
\* payload and ends on its first step, for every maxsize.
C20_LateSubscriberEnds ==
  \A s \in lateSub :
    /\ got[s] = <<>>
    /\ spc[s] = "get" => sq[s] = <<Sentinel>>
    /\ spc[s] \in {"get", "ended"}

\* A subscriber with an unbounded queue started after shutdown, after
\* messages had been published, and its iteration has ended.
C20_Witness ==
  /\ "s2" \in lateSub
  /\ smax["s2"] = 0
  /\ spc["s2"] = "ended"
  /\ npub > 0

\* What a subscriber has been handed so far: the payloads its iteration
\* yielded, then those waiting in its queue.
Handed(s) == got[s] \o Payloads(sq[s])

Last(seq) == seq[Len(seq)]

\* C21: under drop_oldest and drop_newest a publish call never waits on a
\* subscriber: no publisher is ever suspended in a put on such a channel, a
\* subscriber whose queue is never full is handed every message published
\* since it registered, and under drop_oldest the newest message reaches
\* every subscriber, whatever the fill level of the other queues.
C21_DropPoliciesNeverWait ==
  /\ \A p \in Pubs :
       ppc[p] # "idle" => bpolicy[sch[Head(prest[p])]] \notin DropPolicies
  /\ \A s \in Subs :
       (spc[s] \in {"get", "ended"} /\ bpolicy[sch[s]] \in DropPolicies) =>
         /\ smax[s] = 0 => Handed(s) = pubs[s]
         /\ (bpolicy[sch[s]] = "drop_oldest" /\ pubs[s] # <<>>) =>
              (Handed(s) # <<>> /\ Last(Handed(s)) = Last(pubs[s]))

\* s1 (size 1) registered before s2 (unbounded) on a drop_newest channel and
\* consumed nothing while three messages were published: s1 was full for
\* two of them, s2 was handed all three.
C21_Witness ==
  /\ \E ch \in Chans : bsubs[ch] = <<"s1", "s2">> /\ bpolicy[ch] = "drop_newest"
  /\ smax["s1"] = 1 /\ smax["s2"] = 0
  /\ got["s1"] = <<>> /\ sq["s1"] = <<1>>
  /\ pubs["s1"] = <<1, 2, 3>>
  /\ Handed("s2") = <<1, 2, 3>>

Increasing(seq) == \A i, j \in DOMAIN seq : i < j => seq[i] < seq[j]

\* C22: within one channel and for every drop policy, block included, the
\* messages a subscriber receives are in the order of their publish calls,
\* also with several publishers.
C22_PublishOrderKept == \A s \in Subs : Increasing(Handed(s))

\* C23: the tick on which the failures in a row reach max_heartbeat_fail
\* publishes one reconnect_try (severity 2) and then exactly one of
\* reconnect_success (severity 0) and reconnect_fail (severity 3), and the
\* monitor goes on to its next tick.
C23_ReconnectOutcome ==
  /\ mpc # "dead"
  /\ \A i \in DOMAIN mlog :
       mlog[i].name = "reconnect_try" =>
         /\ mlog[i].sev = 2
         /\ i < Len(mlog)
         /\ \/ mlog[i + 1].name = "reconnect_success" /\ mlog[i + 1].sev = 0
            \/ mlog[i + 1].name = "reconnect_fail" /\ mlog[i + 1].sev = 3

\* C29: reconnect_try is published only on a tick whose heartbeat failed
\* with at least max_heartbeat_fail failures in a row since the last
\* successful heartbeat, the last successful reconnect or start; every
\* heartbeat_fail reports that number as consecutive; a successful
\* heartbeat resets it and publishes a state payload, not an event.
C29_CountsFailuresInARow ==
  /\ \A i \in DOMAIN mlog :
       /\ mlog[i].name = "heartbeat_fail" => mlog[i].n = mlog[i].run
       /\ mlog[i].name = "reconnect_try" =>
            /\ i > 1
            /\ mlog[i - 1].name = "heartbeat_fail"
            /\ mlog[i].run >= max_fail
  /\ (mlog # <<>> /\ mlog[Len(mlog)].name = "state") => fail_count = 0

\* C24: the future of an attempt is never cancelled: when the deadline of
\* the attempt or of the grace window expires it stays pending, so that the
\* grace wait can time out or take a late response and the runner goes on
\* to the assume / retry / 1201 step.
C24_FutureNeverCancelled ==
  \A t \in Tasks : fut[t].st # "cancelled" /\ pc[t] # "cancelled"

\* C25: the in-flight table has an entry for a task only while an attempt
\* of it is under way: none before the first attempt, none between two
\* attempts, none once the runner has finished; the pushes of a task are
\* its attempts in order, attempt N + 1 pushed after attempt N resolved.
C25_OneEntryPerAttempt ==
  \A t \in Tasks :
    /\ pc[t] \in {"new", "start", "backoff", "done", "cancelled"} => t \notin inflight
    /\ PushCount(t) <= attempt[t] + 1
    /\ pc[t] \in {"wait", "timedout", "grace"} => PushCount(t) = attempt[t] + 1

\* Both runners have finished after a driver response each, one by its
\* ack and one in the grace window, and the table is empty.
C25_Witness ==
  /\ pc["t1"] = "done" /\ pc["t2"] = "cancelled"
  /\ resp["t1"] # <<>> /\ resp["t2"] # <<>>
  /\ inflight = {}

\* C26: a driver response whose task_id has no entry in the in-flight table
\* invokes no user callback, publishes no ack_success / ack_fail and leaves
\* the table as it is.
C26_UnmatchedIgnored ==
  [][\A t \in Tasks :
       (Len(resp'[t]) > Len(resp[t]) /\ ~resp'[t][Len(resp'[t])][4]) =>
         (log'[t] = log[t] /\ inflight' = inflight /\ fut'[t] = fut[t])]_vars

\* A response came for a task whose entry had been removed, after the
\* timeout event of the task had been published.
C26_Witness ==
  \E t \in Tasks :
    /\ resp[t] # <<>>
    /\ ~resp[t][Len(resp[t])][4]
    /\ log[t] # <<>>

\* C27: an exception raised by Driver.send_cmd does not stop the queue
\* worker, which goes on to the later messages, and a user callback that
\* raises ends neither the task runner nor the worker whose driver response
\* dispatched it.
C27_ExceptionsContained ==
  /\ \A w \in Workers : (~stopped /\ ~wcancel[w]) => wst[w] # "dead"
  /\ \A t \in RaisingCbs :
       /\ pc[t] \in {"new", "start", "push", "wait", "timedout", "grace", "backoff",
                     "done", "cancelled"}
       /\ (pc[t] = "done" /\ CbEntries(t) # <<>>) => TerminalCount(t) >= 1

\* send_cmd raised for the first message the worker took, the worker then
\* dispatched a later one, and the task whose callback raises was concluded
\* by its ack.
C27_Witness ==
  /\ Len(sendLog) >= 2
  /\ sendLog[1] \in ncCalls
  /\ sendLog[2] \notin ncCalls
  /\ \E t \in RaisingCbs : pc[t] = "done" /\ CbEntries(t) # <<>>

\* C28: send_cmd, heartbeat and connect stop waiting once their timeout has
\* gone by since the command was written, however many lines their
\* predicate rejects arrive in the meantime.
C28_WaitBounded ==
  \A e \in Exchangers : Waiting(e) => waited[e] <= Timeout(e)

\* C30: no two exchanges on the socket overlap: while a send_cmd of the
\* queue worker is between its write and its reply, no heartbeat and no
\* connect handshake is between theirs, so none of them drains the receive
\* queue, writes or takes a line meant for the send_cmd.
C30_ExchangesDoNotOverlap ==
  (\E w \in Workers : wst[w] = "send") =>
    (hpc # "wait" /\ \A k \in Connectors : cpc[k] # "wait")

\* Copies of the command of t waiting in the queue.
Queued(t) == {i \in DOMAIN q : q[i].task_id = t}

\* C31: once the user callback of a task has been invoked, no copy of its
\* command is dispatched to Driver.send_cmd any more: every copy the runner
\* pushed has been taken by the worker before and none waits in the queue,
\* also when the queue was backlogged while the deadlines ran.
C31_NoDispatchAfterCallback ==
  \A t \in Tasks :
    CbEntries(t) # <<>> =>
      /\ Queued(t) = {}
      /\ SendCount(t) = PushCount(t)
      /\ \A w \in Workers : wst[w] = "send" => wmsg[w].task_id # t

\* The callback of t1 was invoked and the worker went on to dispatch the
\* command of t2, which had waited behind it until the deadline of t2 had
\* expired.
C31_Witness ==
  /\ CbEntries("t1") # <<>>
  /\ sendLog = <<"t1", "t2">>
  /\ pc["t2"] = "cancelled"
  /\ resp["t2"] = <<>>

\* The runner of t is past its first push.
Pushed(t) == pc[t] \in {"wait", "timedout", "grace", "backoff", "done", "cancelled"}

\* C32: a command in assume_ok_cmds is pushed to the queue exactly once per
\* submit, whatever becomes of its first attempt; any other command is
\* pushed at least once and at most retry_max + 1 times.
C32_PushesPerSubmit ==
  \A t \in Tasks :
    /\ ~Pushed(t) => PushCount(t) = 0
    /\ (Pushed(t) /\ cmd[t] \in assume_ok_cmds) => PushCount(t) = 1
    /\ (Pushed(t) /\ cmd[t] \notin assume_ok_cmds) =>
         (PushCount(t) >= 1 /\ PushCount(t) <= RetryMax + 1)

\* A takeoff whose runner ended without any driver response and a forward
\* whose runner ended after a response, one push each.
C32_Witness ==
  /\ cmd["t1"] = "takeoff" /\ Ended("t1") /\ resp["t1"] = <<>> /\ PushCount("t1") = 1
  /\ cmd["t2"] = "forward" /\ Ended("t2") /\ resp["t2"] # <<>> /\ PushCount("t2") = 1

\* C33: in every state of the driver, connected implies that the UDP
\* transport is there, under any interleaving of connect, close and the
\* arrival of datagrams, a close() during a connect's handshake wait with
\* an `ok` line already queued included.
C33_ConnectedHasTransport == connected => transport

\* Every payload in seq is one of those in of.
AllIn(seq, of) == \A i \in DOMAIN seq : \E j \in DOMAIN of : seq[i] = of[j]

\* C34: a subscriber's queue is in the subscriber list of its channel from
\* the first step of its iteration to the end of it, not from the call of
\* subscribe_*: no message published before the first step is ever handed
\* to it, and after the sentinel or the closing of the sequence the queue
\* is out of the list.
C34_RegisteredWhileIterating ==
  \A s \in Subs :
    /\ spc[s] \in {"new", "called"} =>
         /\ \A ch \in Chans : s \notin Registered(ch)
         /\ Handed(s) = <<>>
         /\ pubs[s] = <<>>
    /\ spc[s] = "get" => s \in Registered(sch[s])
    /\ spc[s] = "ended" => \A ch \in Chans : s \notin Registered(ch)
    /\ AllIn(Handed(s), pubs[s])

\* s1 began to iterate after the first of three messages had been published
\* on the channel s2 was already iterating, took the second, and closed the
\* sequence before the third.
C34_Witness ==
  /\ sch["s1"] = sch["s2"]
  /\ pubs["s2"] = <<1, 2, 3>>
  /\ pubs["s1"] = <<2>>
  /\ got["s1"] = <<2>>
  /\ spc["s1"] = "ended"
  /\ ~bclosed[sch["s1"]]
  /\ sq["s1"] = <<>>

\* ------------------------------------------------------------------ C35
\* C35: a reply the device sent in answer to one command is never reported
\* through the response callback as the outcome of a later command: no task
\* is completed with a line that answers a datagram another caller wrote, in
\* particular the late `ok` of a command that timed out, arriving after the
\* next command was written.
C35_ReplyNotMisattributed == crossed = {}

====
